---------------------------- MODULE Spec2Model ----------------------------
(***************************************************************************)
(* A model of photutils' example-dataset helpers                           *)
(* (src/photutils/datasets/make.py) and of its total-error calculation     *)
(* (src/photutils/utils/errors.py).  Each operation is modelled with a     *)
(* specification of its own:                                               *)
(*                                                                         *)
(*   SpecRender  make_model_sources_image   (make.py 372-464)              *)
(*   SpecCoords  _make_nonoverlap_coords    (make.py 954-984)              *)
(*   SpecTable   make_random_models_table   (make.py 169-247)              *)
(*   SpecGauss   make_random_gaussians_table (make.py 250-369)             *)
(*   SpecWrap    make_gaussian_sources_image,                              *)
(*               make_gaussian_prf_sources_image (make.py 467-642)         *)
(*   SpecNoise   apply_poisson_noise, make_noise_image (make.py 34-166)    *)
(*   SpecError   calc_total_error           (errors.py 13-187)             *)
(*   SpecRound   one round of _make_nonoverlap_coords (make.py 962-977)    *)
(*   SpecPsf     make_test_psf_data         (make.py 987-1076)             *)
(*                                                                         *)
(* Numbers are integers.  Where the code works with fractions (a mean over *)
(* an oversampled grid, a uniform deviate) the model keeps the numerator   *)
(* over a stated denominator, so that equalities are exact.                *)
(***************************************************************************)
EXTENDS Integers, Sequences, FiniteSets, TLC

VARIABLES
    \* ---- make_model_sources_image -------------------------------------
    shape,          \* <<ny, nx>>, the requested image shape
    model_kind,     \* what reading an attribute of the model yields
    model,          \* the model's live parameter values, by name
    model0,         \* the parameter values immediately before the call
    source_table,   \* [colnames |-> sequence, rows |-> sequence of rows]
    oversample,     \* the oversample argument
    image,          \* the local accumulator (numerators over oversample^2)
    params_to_set,  \* line 438-441
    init_params,    \* line 447
    srcidx,         \* index of the row the for loop is at
    exc,            \* the exception in flight: "none", "setattr", "eval"
    setlog,         \* names the call has passed to setattr(model, ...)
    pc,             \* "call", "loop", "finally", "returned", "raised"
    ret,            \* the value handed to the caller
    \* ---- _make_nonoverlap_coords ---------------------------------------
    xrange,         \* <<low, high>> of the x coordinates
    yrange,         \* <<low, high>> of the y coordinates
    ncoords,        \* the number of coordinates asked for
    min_separation, \* the minimum separation asked for
    xycoords,       \* the pool, a sequence of <<x, y>>
    niter,          \* line 960
    nrounds,        \* rounds of drawing and filtering performed so far
    warnings,       \* the warnings emitted, in order
    pc_coords,      \* "loop", "done"
    ret_coords,     \* the coordinates handed to the caller
    \* ---- make_random_models_table --------------------------------------
    entropy,        \* the operating system's entropy source
    ncalls,         \* calls made so far
    last,           \* the latest call: its arguments and its result
    reference,      \* an earlier seeded call, kept for comparison
    \* ---- make_random_gaussians_table -----------------------------------
    gauss_entropy,  \* the operating system's entropy source
    gauss_call,     \* the latest call: its arguments and its result
    \* ---- make_gaussian_sources_image, make_gaussian_prf_sources_image ---
    wrap_fn,        \* which of the two is called: "gaussian" or "prf"
    heap,           \* the table objects, by identity; heap[1] is the caller's
    caller_table0,  \* the contents of the caller's table before the call
    local_table,    \* the object the local name source_table is bound to
    wrap_pc,        \* "call", "render", "returned", "raised"
    wrap_ret,       \* the value handed to the caller
    \* ---- apply_poisson_noise, make_noise_image --------------------------
    noise_entropy,  \* the operating system's entropy source
    noise_call,     \* the latest call: its arguments and its result
    \* ---- calc_total_error ----------------------------------------------
    error_call,     \* the call: its arguments and its result
    \* ---- one round of _make_nonoverlap_coords --------------------------
    round_call,     \* the round: the locals before it, its draw, its result
    \* ---- make_test_psf_data --------------------------------------------
    psf_args,       \* the arguments of the call
    psf_pc,         \* "call", "coords", "returned"
    psf_ret         \* the value handed to the caller: data and sources

renderVars == <<shape, model_kind, model, model0, source_table, oversample,
                image, params_to_set, init_params, srcidx, exc, setlog,
                pc, ret>>

coordsVars == <<xrange, yrange, ncoords, min_separation, xycoords, niter,
                nrounds, warnings, pc_coords, ret_coords>>

tableVars == <<entropy, ncalls, last, reference>>

gaussVars == <<gauss_entropy, gauss_call>>

wrapVars == <<wrap_fn, heap, caller_table0, local_table, wrap_pc, wrap_ret>>

noiseVars == <<noise_entropy, noise_call>>

errorVars == <<error_call>>

roundVars == <<round_call>>

psfVars == <<psf_args, psf_pc, psf_ret>>

vars == <<renderVars, coordsVars, tableVars, gaussVars, wrapVars, noiseVars,
          errorVars, roundVars, psfVars>>

\* What an operation leaves alone: the state of the other operations.
notRender == <<coordsVars, tableVars, gaussVars, wrapVars, noiseVars,
               errorVars, roundVars, psfVars>>
notCoords == <<renderVars, tableVars, gaussVars, wrapVars, noiseVars,
               errorVars, roundVars, psfVars>>
notTable == <<renderVars, coordsVars, gaussVars, wrapVars, noiseVars,
              errorVars, roundVars, psfVars>>
notGauss == <<renderVars, coordsVars, tableVars, wrapVars, noiseVars,
              errorVars, roundVars, psfVars>>
notWrap == <<renderVars, coordsVars, tableVars, gaussVars, noiseVars,
             errorVars, roundVars, psfVars>>
notNoise == <<renderVars, coordsVars, tableVars, gaussVars, wrapVars,
              errorVars, roundVars, psfVars>>
notError == <<renderVars, coordsVars, tableVars, gaussVars, wrapVars,
              noiseVars, roundVars, psfVars>>
notRound == <<renderVars, coordsVars, tableVars, gaussVars, wrapVars,
             noiseVars, errorVars, psfVars>>
\* make_test_psf_data calls _make_nonoverlap_coords
notPsf == <<renderVars, tableVars, gaussVars, wrapVars, noiseVars,
           errorVars, roundVars>>

-----------------------------------------------------------------------------
(* Bounds of the model.                                                    *)
MaxRows == 2        \* rows of a source table
MaxVal == 1         \* table cells and parameters range over 0..MaxVal
MaxCoords == 3      \* ncoords ranges over 0..MaxCoords
MaxSep == 2         \* min_separation ranges over 0..MaxSep
MaxSources == 2     \* n_sources ranges over -1..MaxSources
MaxCalls == 3       \* calls of make_random_models_table in one run

-----------------------------------------------------------------------------
(* Helpers.                                                                *)
Range(s) == {s[i] : i \in DOMAIN s}

Abs(i) == IF i < 0 THEN -i ELSE i

-----------------------------------------------------------------------------
(* The model collaborator.  The stand-in is a box profile of half-width    *)
(* 3/4 pixel centred on (x_0, y_0) with height amplitude.                  *)
ParamNames == <<"amplitude", "x_0", "y_0">>

\* model(x, y) at the point (x/u, y/u), u sub-units per pixel.
Evaluate(m, x, y, u) ==
    IF 4 * Abs(x - u * m["x_0"]) <= 3 * u /\ 4 * Abs(y - u * m["y_0"]) <= 3 * u
    THEN m["amplitude"]
    ELSE 0

\* getattr(model, param).  A plain model hands out the number; an astropy
\* model hands out its Parameter object (the object make.py reads .value
\* from at lines 360, 548, 633), which reads through to the model.
GetAttr(kind, m, param) ==
    [live |-> (kind = "astropy"), value |-> m[param]]

\* The number setattr(model, param, obj) stores: a Parameter object is
\* converted to a number when it is assigned, i.e. to the value the model
\* holds at that moment.
AsFloat(m, param, obj) == IF obj.live THEN m[param] ELSE obj.value

SetAttr(m, param, number) == [m EXCEPT ![param] = number]

-----------------------------------------------------------------------------
(* make_model_sources_image, make.py 435-464.                              *)

Pixels(shp) == (0 .. shp[1] - 1) \X (0 .. shp[2] - 1)     \* <<y, x>>

\* np.zeros(shape)
Zeros(shp) == [p \in Pixels(shp) |-> 0]

\* lines 438-441
ParamsToSet(colnames, param_names) ==
    SelectSeq(colnames, LAMBDA c : c \in Range(param_names))

\* line 447
InitParams(kind, m, pts) ==
    [param \in Range(pts) |-> GetAttr(kind, m, param)]

\* Assignments that also reset every parameter the table has no column for
\* to a default of 0.
SetParamsOrDefault(m, source, pts, n) ==
    IF n = 0 THEN m
    ELSE [param \in DOMAIN m |->
            IF \E i \in 1 .. n : pts[i] = param THEN source[param] ELSE 0]

\* lines 451-452, the first n assignments of one row
RECURSIVE SetParams(_, _, _, _)
SetParams(m, source, pts, n) ==
    IF n = 0 THEN m
    ELSE SetAttr(SetParams(m, source, pts, n - 1), pts[n], source[pts[n]])

\* line 455: model(xidx, yidx), the model at the pixel centres
ModelCall(m, shp) ==
    [p \in Pixels(shp) |-> Evaluate(m, 2 * p[2], 2 * p[1], 2)]

\* lines 457-459: discretize_model(..., mode='oversample', factor=k), the
\* mean over the k*k sub-samples of a pixel, kept as their sum (the
\* numerator over k*k).  Sub-sample j of pixel c lies at c - (1 - 1/k)/2 + j/k.
SubSample(c, k, j) == 2 * k * c - (k - 1) + 2 * j

RECURSIVE SumSamples(_, _, _, _)
SumSamples(m, p, k, i) ==
    IF i = 0 THEN 0
    ELSE Evaluate(m, SubSample(p[2], k, (i - 1) % k),
                     SubSample(p[1], k, (i - 1) \div k), 2 * k)
         + SumSamples(m, p, k, i - 1)

DiscretizeModel(m, shp, k) ==
    [p \in Pixels(shp) |-> SumSamples(m, p, k, k * k)]

\* An accumulation that overwrites: image = ... in place of image += ...
AddImageOverwrite(a, b) == b

\* image += ...
AddImage(a, b) == [p \in DOMAIN a |-> a[p] + b[p]]

\* lines 454-459, what one source adds to the image
Contribution(m, shp, k) ==
    IF k = 1 THEN ModelCall(m, shp) ELSE DiscretizeModel(m, shp, k)

\* lines 461-462, the first n items of init_params (a dict keeps the order
\* of params_to_set)
RECURSIVE Restore(_, _, _, _)
Restore(m, saved, pts, n) ==
    IF n = 0 THEN m
    ELSE LET prev == Restore(m, saved, pts, n - 1)
         IN  SetAttr(prev, pts[n], AsFloat(prev, pts[n], saved[pts[n]]))

(* The inputs of a call. *)
Shapes == {<<1, 2>>, <<2, 2>>}

ModelKinds == {"plain", "astropy"}

OversampleValues == {1, 2}

ModelStates ==
    {[amplitude |-> 1, x_0 |-> 0, y_0 |-> 0],
     [amplitude |-> MaxVal, x_0 |-> 1, y_0 |-> 0]}

Colnames ==
    {<< >>, <<"amplitude">>, <<"id">>, <<"x_0", "amplitude">>,
     <<"flux", "x_0">>}

\* A table without columns has no rows.
Tables ==
    UNION {
        {[colnames |-> cn, rows |-> rs] :
            rs \in UNION {[1 .. n -> [Range(cn) -> 0 .. MaxVal]] :
                            n \in (IF cn = << >> THEN {0} ELSE 0 .. MaxRows)}} :
        cn \in Colnames}

\* The state of a specification's other operations: not called.
RenderIdle ==
    /\ shape = << >> /\ model_kind = "" /\ model = << >> /\ model0 = << >>
    /\ source_table = << >> /\ oversample = 0 /\ image = << >>
    /\ params_to_set = << >> /\ init_params = << >> /\ srcidx = 0
    /\ exc = "" /\ setlog = {} /\ pc = "" /\ ret = << >>

CoordsIdle ==
    /\ xrange = << >> /\ yrange = << >> /\ ncoords = 0
    /\ min_separation = 0 /\ xycoords = << >> /\ niter = 0 /\ nrounds = 0
    /\ warnings = << >> /\ pc_coords = "" /\ ret_coords = << >>

NoCall == [made |-> FALSE]

TableIdle ==
    /\ entropy = 0 /\ ncalls = 0 /\ last = NoCall /\ reference = NoCall

GaussIdle == gauss_entropy = 0 /\ gauss_call = NoCall

WrapIdle ==
    /\ wrap_fn = "" /\ heap = << >> /\ caller_table0 = << >>
    /\ local_table = 0 /\ wrap_pc = "" /\ wrap_ret = << >>

NoiseIdle == noise_entropy = 0 /\ noise_call = NoCall

ErrorIdle == error_call = NoCall

RoundIdle == round_call = NoCall

PsfIdle == psf_args = << >> /\ psf_pc = "" /\ psf_ret = << >>

RenderInit ==
    /\ CoordsIdle
    /\ TableIdle
    /\ GaussIdle
    /\ WrapIdle
    /\ NoiseIdle
    /\ ErrorIdle
    /\ RoundIdle
    /\ PsfIdle
    /\ shape \in Shapes
    /\ model_kind \in ModelKinds
    /\ model \in ModelStates
    /\ model0 = model
    /\ source_table \in Tables
    /\ oversample \in OversampleValues
    /\ image = << >>
    /\ params_to_set = << >>
    /\ init_params = << >>
    /\ srcidx = 0
    /\ exc = "none"
    /\ setlog = {}
    /\ pc = "call"
    /\ ret = [exception |-> "pending", image |-> << >>]

\* lines 435-447
RenderSetup ==
    /\ pc = "call"
    /\ image' = Zeros(shape)
    /\ params_to_set' = ParamsToSet(source_table.colnames, ParamNames)
    /\ init_params' = InitParams(model_kind, model, params_to_set')
    /\ srcidx' = 1
    /\ pc' = "loop"
    /\ UNCHANGED <<shape, model_kind, model, model0, source_table,
                   oversample, exc, setlog, ret>>
    /\ UNCHANGED notRender

\* lines 450-459, one pass of the for loop.  Assigning a parameter and
\* evaluating the model are calls into the model, and either may raise.
RenderSource ==
    /\ pc = "loop"
    /\ srcidx <= Len(source_table.rows)
    /\ LET source == source_table.rows[srcidx]
           n == Len(params_to_set)
       IN  \/ /\ model' = SetParams(model, source, params_to_set, n)
              /\ setlog' = setlog \cup Range(params_to_set)
              /\ image' = AddImage(image,
                                   Contribution(model', shape, oversample))
              /\ srcidx' = srcidx + 1
              /\ UNCHANGED <<exc, pc>>
           \/ \E j \in 1 .. n :
              /\ model' = SetParams(model, source, params_to_set, j - 1)
              /\ setlog' = setlog \cup {params_to_set[i] : i \in 1 .. j}
              /\ exc' = "setattr"
              /\ pc' = "finally"
              /\ UNCHANGED <<image, srcidx>>
           \/ /\ model' = SetParams(model, source, params_to_set, n)
              /\ setlog' = setlog \cup Range(params_to_set)
              /\ exc' = "eval"
              /\ pc' = "finally"
              /\ UNCHANGED <<image, srcidx>>
    /\ UNCHANGED <<shape, model_kind, model0, source_table, oversample,
                   params_to_set, init_params, ret>>
    /\ UNCHANGED notRender

\* lines 460-464: the finally block, then the return or the re-raise
RenderFinally ==
    /\ pc = "finally" \/ (pc = "loop" /\ srcidx > Len(source_table.rows))
    /\ model' = Restore(model, init_params, params_to_set, Len(params_to_set))
    /\ setlog' = setlog \cup DOMAIN init_params
    /\ IF exc = "none"
       THEN /\ ret' = [exception |-> "none", image |-> image]
            /\ pc' = "returned"
       ELSE /\ ret' = [exception |-> exc, image |-> << >>]
            /\ pc' = "raised"
    /\ UNCHANGED <<shape, model_kind, model0, source_table, oversample,
                   image, params_to_set, init_params, srcidx, exc>>
    /\ UNCHANGED notRender

RenderNext == RenderSetup \/ RenderSource \/ RenderFinally

SpecRender == RenderInit /\ [][RenderNext]_vars

-----------------------------------------------------------------------------
(* Properties of make_model_sources_image.                                 *)

RenderExited == pc \in {"returned", "raised"}

\* C1: when the call returns or raises, every parameter of the model has
\* the value it had immediately before the call.
C1_ParamsRestoredOnExit == RenderExited => model = model0

\* C2: when a row's setattr or the model's evaluation raises, the caller
\* gets the exception and no image, and the model's parameters are back at
\* their pre-call values by then.
C2_FailureNoImageAndRestored ==
    pc = "raised" =>
        /\ ret.exception \in {"setattr", "eval"}
        /\ ret.image = << >>
        /\ model = model0

\* The parameter values row i is rendered with: the row's value for a
\* parameter that is a column, the pre-call value otherwise.
RowModel(i) ==
    [param \in Range(ParamNames) |->
        IF param \in Range(source_table.colnames)
        THEN source_table.rows[i][param]
        ELSE model0[param]]

RECURSIVE SumOfRows(_, _)
SumOfRows(n, p) ==
    IF n = 0 THEN 0
    ELSE Contribution(RowModel(n), shape, oversample)[p] + SumOfRows(n - 1, p)

\* C3: a returned image has the requested shape and is, pixel by pixel,
\* the sum over the rows of the model evaluated with that row's values;
\* no rows give zeros.
C3_ImageIsSumOfRows ==
    pc = "returned" =>
        /\ ret.exception = "none"
        /\ DOMAIN ret.image = Pixels(shape)
        /\ \A p \in Pixels(shape) :
              ret.image[p] = SumOfRows(Len(source_table.rows), p)

\* Two rows that both light pixel <<0, 0>> have been summed and returned.
C3_Witness ==
    /\ pc = "returned"
    /\ Len(source_table.rows) = 2
    /\ \A i \in 1 .. 2 :
          Contribution(RowModel(i), shape, oversample)[<<0, 0>>] > 0
    /\ RowModel(1) # RowModel(2)

\* C4: only names that are both a column and a parameter are ever written
\* to the model, and a parameter without a column keeps its pre-call value
\* throughout the call.
C4_OnlyTableParamsWritten ==
    /\ setlog \subseteq
           (Range(source_table.colnames) \cap Range(ParamNames))
    /\ \A param \in Range(ParamNames) \ Range(source_table.colnames) :
           model[param] = model0[param]

\* A table with a column that is no parameter ("flux") and without a column
\* for the parameter "amplitude" has been rendered, row by row.
C4_Witness ==
    /\ pc = "returned"
    /\ source_table.colnames = <<"flux", "x_0">>
    /\ Len(source_table.rows) = 2
    /\ setlog = {"x_0"}
    /\ \E i \in 1 .. 2 : source_table.rows[i]["x_0"] # model0["x_0"]

-----------------------------------------------------------------------------
(* _make_nonoverlap_coords, make.py 954-984.                               *)
(* Coordinates are lattice points; a draw of rng.uniform(low, high, n) is  *)
(* any n values of low .. high - 1 (the seed is any seed).  Distances are  *)
(* compared by their squares: dist >= d iff dist^2 >= d^2 for d >= 0.      *)

MaxIter == 20

\* The regions drawn from: a row of three lattice points, and a square of
\* four.
Regions ==
    {[xrange |-> <<0, 3>>, yrange |-> <<0, 1>>],
     [xrange |-> <<1, 3>>, yrange |-> <<0, 2>>]}

\* rng.uniform(low, high, n), lines 966-967
Uniform(rng_range, n) == [1 .. n -> rng_range[1] .. rng_range[2] - 1]

\* np.transpose((x_new, y_new)), line 968
Transpose(x_new, y_new) == [i \in DOMAIN x_new |-> <<x_new[i], y_new[i]>>]

\* np.vstack((xycoords, new_xycoords)), lines 969-972
Stack(it, pool, new_xycoords) ==
    IF it = 1 THEN new_xycoords ELSE pool \o new_xycoords

Dist2(p, q) == (p[1] - q[1]) * (p[1] - q[1]) + (p[2] - q[2]) * (p[2] - q[2])

\* A mask that keeps the first point of a pair too close: a point is
\* compared with the earlier points of the pool alone.
MaskEarlier(pool, d, i) ==
    \A j \in DOMAIN pool : j < i => Dist2(pool[i], pool[j]) >= d * d

\* lines 974-975: KDTree(xycoords).query(xycoords, k=[2]) is the distance
\* from point i to the nearest other point of the pool (infinite when the
\* pool has no other point); mask[i] is dist >= min_separation.
Mask(pool, d, i) ==
    \A j \in DOMAIN pool \ {i} : Dist2(pool[i], pool[j]) >= d * d

\* line 976: xycoords[mask], of the first n points
RECURSIVE Filter(_, _, _)
Filter(pool, d, n) ==
    IF n = 0 THEN << >>
    ELSE IF Mask(pool, d, n)
         THEN Append(Filter(pool, d, n - 1), pool[n])
         ELSE Filter(pool, d, n - 1)

\* A cap that lets one more round through.
CapReachedLate(it) == it > MaxIter + 1

\* line 963
CapReached(it) == it > MaxIter

\* A return without the slice.
TruncateNothing(pool, n) == pool

\* line 979: xycoords[0:ncoords]
Truncate(pool, n) == SubSeq(pool, 1, IF Len(pool) < n THEN Len(pool) ELSE n)

\* A test that also fires for a full result.
ShortOrFull(coords, n) == Len(coords) <= n

\* line 980
Short(coords, n) == Len(coords) < n

CoordsInit ==
    /\ RenderIdle
    /\ TableIdle
    /\ GaussIdle
    /\ WrapIdle
    /\ NoiseIdle
    /\ ErrorIdle
    /\ RoundIdle
    /\ PsfIdle
    /\ \E region \in Regions :
          xrange = region.xrange /\ yrange = region.yrange
    /\ ncoords \in 0 .. MaxCoords
    /\ min_separation \in 0 .. MaxSep
    /\ xycoords = << >>
    /\ niter = 1
    /\ nrounds = 0
    /\ warnings = << >>
    /\ pc_coords = "loop"
    /\ ret_coords = << >>

\* lines 962-977, one round of the while loop
CoordsRound ==
    /\ pc_coords = "loop"
    /\ Len(xycoords) < ncoords
    /\ ~CapReached(niter)
    /\ \E x_new \in Uniform(xrange, ncoords), y_new \in Uniform(yrange, ncoords) :
         LET pool == Stack(niter, xycoords, Transpose(x_new, y_new))
         IN  xycoords' = Filter(pool, min_separation, Len(pool))
    /\ niter' = niter + 1
    /\ nrounds' = nrounds + 1
    /\ UNCHANGED <<xrange, yrange, ncoords, min_separation, warnings,
                   pc_coords, ret_coords>>
    /\ UNCHANGED notCoords

\* lines 962-964 (the loop ends) and 979-984
CoordsReturn ==
    /\ pc_coords = "loop"
    /\ Len(xycoords) >= ncoords \/ CapReached(niter)
    /\ ret_coords' = Truncate(xycoords, ncoords)
    /\ warnings' = IF Short(ret_coords', ncoords)
                   THEN Append(warnings, "Unable to produce")
                   ELSE warnings
    /\ pc_coords' = "done"
    /\ UNCHANGED <<xrange, yrange, ncoords, min_separation, xycoords, niter,
                   nrounds>>
    /\ UNCHANGED notCoords

CoordsNext == CoordsRound \/ CoordsReturn

SpecCoords == CoordsInit /\ [][CoordsNext]_vars

\* The loop is sequential code: it keeps running until the function returns.
SpecCoordsFair == SpecCoords /\ WF_vars(CoordsNext)

-----------------------------------------------------------------------------
(* Properties of _make_nonoverlap_coords.                                  *)

PairwiseApart(pool, d) ==
    \A i, j \in DOMAIN pool : i # j => Dist2(pool[i], pool[j]) >= d * d

\* C5: the returned coordinates are pairwise at distance >= min_separation,
\* and there are at most ncoords of them.
C5_ReturnedApartAndAtMostN ==
    pc_coords = "done" =>
        /\ PairwiseApart(ret_coords, min_separation)
        /\ Len(ret_coords) <= ncoords

\* A call has returned ncoords >= 2 coordinates for a separation that not
\* every pair of lattice points has, after more than one round.
C5_Witness ==
    /\ pc_coords = "done"
    /\ ncoords >= 2
    /\ Len(ret_coords) = ncoords
    /\ min_separation = 2
    /\ nrounds > 1

\* C6: the call performs at most 20 rounds, performs no round once the pool
\* holds ncoords points after a round's filter, and returns.
C6_AtMost20RoundsAndTerminates ==
    /\ [](nrounds <= 20)
    /\ [][Len(xycoords) >= ncoords => nrounds' = nrounds]_vars
    /\ <>(pc_coords = "done")

\* A call that ran all 20 rounds without reaching ncoords points, for a
\* separation no two lattice points have, has returned.
C6_Witness ==
    /\ pc_coords = "done"
    /\ nrounds = 20
    /\ Len(ret_coords) < ncoords
    /\ min_separation * min_separation > 2

\* C7: the warning is emitted exactly when fewer than ncoords coordinates
\* are returned; the call then returns every point of the pool, and a call
\* that returns ncoords points emits no warning.
C7_WarningIffShort ==
    pc_coords = "done" =>
        /\ Len(warnings) <= 1
        /\ (warnings # << >>) <=> (Len(ret_coords) < ncoords)
        /\ Len(ret_coords) < ncoords => ret_coords = xycoords

\* A call has returned some, but fewer than ncoords, coordinates with the
\* warning.
C7_Witness ==
    /\ pc_coords = "done"
    /\ warnings = <<"Unable to produce">>
    /\ Len(ret_coords) > 0
    /\ Len(ret_coords) < ncoords

-----------------------------------------------------------------------------
(* make_random_models_table, make.py 169-247.                              *)
(* A generator is a linear congruential stream over 0 .. Modulus - 1; a    *)
(* state s stands for the deviate s / Modulus of [0, 1).  Column values    *)
(* are numerators over Modulus.                                            *)

Modulus == 4

NoSeed == -1        \* seed=None

Seeds == {NoSeed, 0, 1}

\* n_sources as passed: an integer, or something that is no number
NSources ==
    {[type |-> "int", val |-> v] : v \in -1 .. MaxSources}
        \cup {[type |-> "str", val |-> 0]}

\* param_ranges: a dict, in insertion order, of name: (lower, upper)
ParamRanges ==
    {<< >>,
     <<[name |-> "flux", lower |-> 1, upper |-> 3]>>,
     <<[name |-> "x_mean", lower |-> 0, upper |-> 2],
       [name |-> "theta", lower |-> 1, upper |-> 1]>>,
     <<[name |-> "theta", lower |-> 1, upper |-> 1],
       [name |-> "x_mean", lower |-> 0, upper |-> 2]>>}

\* The stream of a seeded generator starts from its seed alone.
SeedState(seed) == (2 * seed + 1) % Modulus

NextState(s) == (s + 3) % Modulus

RECURSIVE StateAfter(_, _)
StateAfter(s, k) == IF k = 0 THEN s ELSE NextState(StateAfter(s, k - 1))

\* A generator that is always taken from the shared entropy source.
DefaultRngShared(seed, os) == os

\* line 236: np.random.default_rng(seed); without a seed the state is
\* fresh entropy from the operating system
DefaultRng(seed, os) == IF seed = NoSeed THEN os ELSE SeedState(seed)

\* A size check that also refuses n = 0.
BadSizeOrZero(n) == IF n.type # "int" THEN "TypeError"
                    ELSE IF n.val <= 0 THEN "ValueError" ELSE "none"

\* rng.uniform(lower, upper, n) raises for a size that is no integer or
\* is negative
BadSize(n) == IF n.type # "int" THEN "TypeError"
              ELSE IF n.val < 0 THEN "ValueError" ELSE "none"

\* A deviate of (0, 1] in place of [0, 1).
DeviateUpper(s) == s + 1

\* The numerator of the deviate of state s, in [0, 1)
Deviate(s) == s

\* line 245: rng.uniform(lower, upper, n) is lower + (upper - lower) * u
\* for the next n deviates u of the generator in state s
UniformColumn(lower, upper, n, s) ==
    [i \in 1 .. n |->
        Modulus * lower + (upper - lower) * Deviate(StateAfter(s, i - 1))]

\* lines 239-245: the columns of the first k entries, in iteration order,
\* drawn one after the other from the same generator
RECURSIVE Columns(_, _, _, _)
Columns(ranges, n, s, k) ==
    IF k = 0 THEN << >>
    ELSE Append(Columns(ranges, n, s, k - 1),
                [name |-> ranges[k].name,
                 data |-> UniformColumn(ranges[k].lower, ranges[k].upper, n,
                                        StateAfter(s, (k - 1) * n))])

\* lines 236-247, the whole call
MakeRandomModelsTable(n, ranges, seed, os) ==
    IF ranges # << >> /\ BadSize(n) # "none"
    THEN [exception |-> BadSize(n), table |-> << >>]
    ELSE [exception |-> "none",
          table |-> Columns(ranges, n.val, DefaultRng(seed, os), Len(ranges))]

\* len(table): the length of its columns, 0 for a table without columns
TableLen(t) == IF t = << >> THEN 0 ELSE Len(t[1].data)

TableInit ==
    /\ RenderIdle
    /\ CoordsIdle
    /\ GaussIdle
    /\ WrapIdle
    /\ NoiseIdle
    /\ ErrorIdle
    /\ RoundIdle
    /\ PsfIdle
    /\ entropy \in 0 .. Modulus - 1
    /\ ncalls = 0
    /\ last = NoCall
    /\ reference = NoCall

\* One call of make_random_models_table(n_sources, param_ranges, seed).
TableCall ==
    /\ ncalls < MaxCalls
    /\ \E n \in NSources, ranges \in ParamRanges, seed \in Seeds :
         LET call == [made |-> TRUE, n |-> n, ranges |-> ranges,
                      seed |-> seed, entropy |-> entropy,
                      result |-> MakeRandomModelsTable(n, ranges, seed,
                                                       entropy)]
         IN  /\ last' = call
             /\ entropy' = IF seed = NoSeed THEN NextState(entropy)
                           ELSE entropy
             /\ reference' \in
                  IF reference = NoCall /\ seed # NoSeed
                  THEN {NoCall, call} ELSE {reference}
    /\ ncalls' = ncalls + 1
    /\ UNCHANGED notTable

TableNext == TableCall

SpecTable == TableInit /\ [][TableNext]_vars

-----------------------------------------------------------------------------
(* Properties of make_random_models_table.                                 *)

Usable(n) == n.type = "int" /\ n.val >= 0

Returned(call) == call.made /\ call.result.exception = "none"

\* The shape of the returned table: one column per entry of the map, named
\* by its key, in the map's order, of n values each.
ColumnsAsMap(call) ==
    /\ Len(call.result.table) = Len(call.ranges)
    /\ \A k \in DOMAIN call.ranges :
         /\ call.result.table[k].name = call.ranges[k].name
         /\ Len(call.result.table[k].data) = call.n.val

SameArguments(a, b) ==
    a.n = b.n /\ a.ranges = b.ranges /\ a.seed = b.seed

-----------------------------------------------------------------------------
(* make_random_gaussians_table, make.py 250-369.                           *)
(* Generated columns hold numerators over Modulus, as above.  A derived    *)
(* amplitude is kept as the fraction num / den in units of 1 / (2 pi).     *)

\* param_ranges of the Gaussian table; the stddev ranges are positive
GaussRanges ==
    {<< >>,
     <<[name |-> "flux", lower |-> 1, upper |-> 3]>>,
     <<[name |-> "flux", lower |-> 1, upper |-> 3],
       [name |-> "x_stddev", lower |-> 1, upper |-> 2]>>,
     <<[name |-> "y_stddev", lower |-> 1, upper |-> 3],
       [name |-> "flux", lower |-> 2, upper |-> 2],
       [name |-> "x_stddev", lower |-> 1, upper |-> 2]>>,
     <<[name |-> "flux", lower |-> 1, upper |-> 3],
       [name |-> "amplitude", lower |-> 0, upper |-> 2]>>,
     <<[name |-> "amplitude", lower |-> 0, upper |-> 2],
       [name |-> "x_stddev", lower |-> 1, upper |-> 2]>>}

\* 'name' in param_ranges
HasKey(ranges, name) == \E k \in DOMAIN ranges : ranges[k].name = name

\* 'name' in sources.colnames
HasColumn(table, name) == \E k \in DOMAIN table : table[k].name = name

\* sources['name']
ColumnOf(table, name) ==
    table[CHOOSE k \in DOMAIN table : table[k].name = name].data

\* lines 357-364: the stddev of row i, the column's value or the default
\* of Gaussian2D(x_stddev=1, y_stddev=1), the number 1.0
StddevOrDefault(table, name, i) ==
    IF HasColumn(table, name) THEN ColumnOf(table, name)[i] ELSE Modulus * 1

\* An amplitude for a circular source: y_stddev is taken to be x_stddev.
FluxToAmplitudeCircular(flux, xstd, ystd) ==
    [num |-> flux * Modulus, den |-> xstd * xstd]

\* line 367: flux / (2.0 * np.pi * xstd * ystd) for the numerators flux,
\* xstd and ystd over Modulus
FluxToAmplitude(flux, xstd, ystd) ==
    [num |-> flux * Modulus, den |-> xstd * ystd]

\* lines 350-369, the whole call
MakeRandomGaussiansTable(n, ranges, seed, os) ==
    LET made == MakeRandomModelsTable(n, ranges, seed, os)
        sources == made.table
    IN  IF made.exception # "none" THEN made
        ELSE IF HasKey(ranges, "flux") /\ ~HasKey(ranges, "amplitude")
        THEN [exception |-> "none",
              table |->
                Append(sources,
                       [name |-> "amplitude",
                        data |->
                          [i \in 1 .. TableLen(sources) |->
                             FluxToAmplitude(
                               ColumnOf(sources, "flux")[i],
                               StddevOrDefault(sources, "x_stddev", i),
                               StddevOrDefault(sources, "y_stddev", i))]])]
        ELSE made

GaussInit ==
    /\ RenderIdle
    /\ CoordsIdle
    /\ TableIdle
    /\ WrapIdle
    /\ NoiseIdle
    /\ ErrorIdle
    /\ RoundIdle
    /\ PsfIdle
    /\ gauss_entropy \in 0 .. Modulus - 1
    /\ gauss_call = NoCall

\* The call of make_random_gaussians_table(n_sources, param_ranges, seed);
\* a behaviour is one call.
GaussCall ==
    /\ ~gauss_call.made
    /\ \E n \in NSources, ranges \in GaussRanges, seed \in Seeds :
         /\ gauss_call' =
              [made |-> TRUE, n |-> n, ranges |-> ranges, seed |-> seed,
               entropy |-> gauss_entropy,
               result |-> MakeRandomGaussiansTable(n, ranges, seed,
                                                   gauss_entropy)]
         /\ gauss_entropy' = IF seed = NoSeed THEN NextState(gauss_entropy)
                             ELSE gauss_entropy
    /\ UNCHANGED notGauss

GaussNext == GaussCall

SpecGauss == GaussInit /\ [][GaussNext]_vars

-----------------------------------------------------------------------------
(* Properties of make_random_gaussians_table.                              *)

\* C11: the returned table is the generated one plus a last column
\* 'amplitude' exactly when the map has 'flux' and no 'amplitude'; then, row
\* by row, amplitude * 2 pi * x_stddev * y_stddev = flux, with 1.0 for a
\* stddev that is no column, and the generated columns are as generated.
\* Otherwise (in particular with both keys) the table is the generated one.
C11_AmplitudeDerivedFromFlux ==
    Returned(gauss_call) =>
        LET generated == MakeRandomModelsTable(gauss_call.n, gauss_call.ranges,
                             gauss_call.seed, gauss_call.entropy).table
            out == gauss_call.result.table
            nrows == TableLen(generated)
            Std(name, i) == IF \E k \in DOMAIN generated :
                                    generated[k].name = name
                            THEN ColumnOf(generated, name)[i]
                            ELSE Modulus
        IN  IF HasKey(gauss_call.ranges, "flux")
               /\ ~HasKey(gauss_call.ranges, "amplitude")
            THEN /\ Len(out) = Len(generated) + 1
                 /\ SubSeq(out, 1, Len(generated)) = generated
                 /\ out[Len(out)].name = "amplitude"
                 /\ DOMAIN out[Len(out)].data = 1 .. nrows
                 /\ \A i \in 1 .. nrows :
                      LET a == out[Len(out)].data[i]
                      IN  /\ a.den # 0
                          /\ a.num * Std("x_stddev", i) * Std("y_stddev", i)
                               = a.den * ColumnOf(generated, "flux")[i]
                                       * Modulus
            ELSE out = generated

\* A call has returned two rows with generated flux, x_stddev and y_stddev
\* columns, an appended amplitude, and a row whose two stddevs differ.
C11_Witness ==
    /\ Returned(gauss_call)
    /\ gauss_call.n.val = 2
    /\ Len(gauss_call.result.table) = 4
    /\ gauss_call.result.table[4].name = "amplitude"
    /\ \E i \in 1 .. 2 :
         ColumnOf(gauss_call.result.table, "x_stddev")[i]
            # ColumnOf(gauss_call.result.table, "y_stddev")[i]

-----------------------------------------------------------------------------
(* make_gaussian_sources_image (make.py 467-561) and                       *)
(* make_gaussian_prf_sources_image (make.py 564-642).                      *)
(* Tables are objects: a name is bound to an identity, and the contents    *)
(* live in the heap.  A derived amplitude is the fraction num / den in     *)
(* units of 1 / (2 pi), a derived flux the fraction num / den in units of  *)
(* 2 pi.                                                                   *)

WrapFns == {"gaussian", "prf"}

\* lines 543 and 628: the model the wrapper constructs, by the parameters
\* the wrapper deals with
WrapModel(fn) ==
    IF fn = "gaussian"
    THEN [amplitude |-> 1, x_stddev |-> 1, y_stddev |-> 1]
    ELSE [flux |-> 1, sigma |-> 1]

WrapColnames ==
    {<< >>, <<"flux">>, <<"x_stddev", "flux">>,
     <<"flux", "x_stddev", "y_stddev">>, <<"flux", "amplitude">>,
     <<"amplitude">>, <<"amplitude", "sigma">>, <<"sigma", "flux">>,
     <<"y_stddev">>}

\* The cells of the caller's tables: positive numbers
WrapCells == {1, 2}

\* The caller's tables with the given column names
WrapTables(colnames) ==
    UNION {
        {[colnames |-> cn, rows |-> rs] :
            rs \in UNION {[1 .. n -> [Range(cn) -> WrapCells]] :
                            n \in (IF cn = << >> THEN {0} ELSE 0 .. MaxRows)}} :
        cn \in colnames}

\* lines 545-552 and 630-633: source_table[name] of row i, or
\* model.<name>.value
ValueOrDefault(table, m, name, i) ==
    IF name \in Range(table.colnames) THEN table.rows[i][name] ELSE m[name]

\* lines 555 and 637
NeedsColumn(fn, colnames) ==
    IF fn = "gaussian"
    THEN "flux" \in Range(colnames) /\ "amplitude" \notin Range(colnames)
    ELSE "flux" \notin Range(colnames) /\ "amplitude" \in Range(colnames)

\* lines 557 and 639: the column that is assigned
DerivedName(fn) == IF fn = "gaussian" THEN "amplitude" ELSE "flux"

\* lines 558-559: flux / (2.0 * np.pi * xstd * ystd)
GaussianAmplitude(flux, xstd, ystd) == [num |-> flux, den |-> xstd * ystd]

\* A flux that grows with sigma in place of sigma * sigma.
PrfFluxLinear(amplitude, sigma) == [num |-> amplitude * sigma, den |-> 1]

\* lines 640-641: amplitude * (2.0 * np.pi * sigma * sigma)
PrfFlux(amplitude, sigma) == [num |-> amplitude * sigma * sigma, den |-> 1]

\* lines 557-559 and 639-641: the assigned column, row by row
DerivedColumn(fn, table, m) ==
    [i \in 1 .. Len(table.rows) |->
        IF fn = "gaussian"
        THEN GaussianAmplitude(table.rows[i]["flux"],
                               ValueOrDefault(table, m, "x_stddev", i),
                               ValueOrDefault(table, m, "y_stddev", i))
        ELSE PrfFlux(table.rows[i]["amplitude"],
                     ValueOrDefault(table, m, "sigma", i))]

\* A copy that is the same object.
CopyShared(h, id) == [heap |-> h, id |-> id]

\* lines 556 and 638: source_table.copy(), a new object with the contents
\* of the old one
Copy(h, id) == [heap |-> Append(h, h[id]), id |-> Len(h) + 1]

\* table[name] = values
SetColumn(table, name, values) ==
    [colnames |-> IF name \in Range(table.colnames) THEN table.colnames
                  ELSE Append(table.colnames, name),
     rows |-> [i \in 1 .. Len(table.rows) |->
                 [c \in Range(table.colnames) \cup {name} |->
                     IF c = name THEN values[i] ELSE table.rows[i][c]]]]

\* lines 450-459 of make_model_sources_image: the parameter values each
\* row is rendered with, the row's value for a parameter that is a column
\* and the model's own value otherwise.  They determine the image.
RenderedWith(m, table) ==
    [i \in 1 .. Len(table.rows) |->
        [param \in DOMAIN m |-> ValueOrDefault(table, m, param, i)]]

WrapInit ==
    /\ RenderIdle
    /\ CoordsIdle
    /\ TableIdle
    /\ GaussIdle
    /\ NoiseIdle
    /\ ErrorIdle
    /\ RoundIdle
    /\ PsfIdle
    /\ wrap_fn \in WrapFns
    /\ caller_table0 \in WrapTables(WrapColnames)
    /\ heap = <<caller_table0>>
    /\ local_table = 1
    /\ wrap_pc = "call"
    /\ wrap_ret = [exception |-> "pending", rendered |-> << >>]

\* lines 543-559 and 628-641: everything before the call of
\* make_model_sources_image
WrapPrepare ==
    /\ wrap_pc = "call"
    /\ LET m == WrapModel(wrap_fn)
           values == DerivedColumn(wrap_fn, heap[local_table], m)
           copied == Copy(heap, local_table)
       IN  IF NeedsColumn(wrap_fn, heap[local_table].colnames)
           THEN /\ local_table' = copied.id
                /\ heap' = [copied.heap EXCEPT
                              ![copied.id] = SetColumn(@, DerivedName(wrap_fn),
                                                       values)]
           ELSE UNCHANGED <<heap, local_table>>
    /\ wrap_pc' = "render"
    /\ UNCHANGED <<wrap_fn, caller_table0, wrap_ret>>
    /\ UNCHANGED notWrap

\* lines 561 and 642: make_model_sources_image(shape, model, source_table),
\* which reads the table and returns an image or raises
WrapRender ==
    /\ wrap_pc = "render"
    /\ \/ /\ wrap_ret' = [exception |-> "none",
                          rendered |-> RenderedWith(WrapModel(wrap_fn),
                                                    heap[local_table])]
          /\ wrap_pc' = "returned"
       \/ /\ wrap_ret' = [exception |-> "raised", rendered |-> << >>]
          /\ wrap_pc' = "raised"
    /\ UNCHANGED <<wrap_fn, heap, caller_table0, local_table>>
    /\ UNCHANGED notWrap

WrapNext == WrapPrepare \/ WrapRender

SpecWrap == WrapInit /\ [][WrapNext]_vars

-----------------------------------------------------------------------------
(* Properties of the two wrappers.                                         *)

\* C12: throughout a call of either wrapper and after it, returned or
\* raised, the caller's table has the columns and the values it had before
\* the call; a derived column is in a copy.
C12_CallerTableUnchanged ==
    wrap_pc \in {"call", "render", "returned", "raised"} =>
        /\ heap[1] = caller_table0
        /\ NeedsColumn(wrap_fn, caller_table0.colnames)
             /\ wrap_pc # "call" => local_table # 1

\* A wrapper that derived a column for a table with rows has raised.
C12_Witness ==
    /\ wrap_pc = "raised"
    /\ Len(caller_table0.rows) = 2
    /\ Len(heap) = 2
    /\ DerivedName(wrap_fn) \in Range(heap[2].colnames)
    /\ DerivedName(wrap_fn) \notin Range(heap[1].colnames)

\* The value column 'name' of the caller's table has in row i, or 1 when
\* there is no such column.
CallerValueOrOne(name, i) ==
    IF name \in Range(caller_table0.colnames)
    THEN caller_table0.rows[i][name] ELSE 1

-----------------------------------------------------------------------------
(* apply_poisson_noise (make.py 34-88) and make_noise_image (make.py       *)
(* 91-166).  Arrays are functions over Pixels(shape); the generator is the *)
(* stream of make_random_models_table above.  The samplers are stand-ins   *)
(* that keep what the callers can observe: the arguments a sampler         *)
(* refuses, the shape of what it returns, and one deviate per element.     *)

\* The largest rate rng.poisson accepts (numpy refuses a larger one with
\* ValueError), scaled down.
MaxRate == 2

\* data of apply_poisson_noise
DataArrays == UNION {[Pixels(shp) -> -1 .. MaxRate + 1] : shp \in Shapes}

\* An optional argument: None, or a number
Optional(values) ==
    {[given |-> FALSE, val |-> 0]}
        \cup {[given |-> TRUE, val |-> v] : v \in values}

Distributions == {"gaussian", "poisson", "uniform"}

MeanValues == -1 .. MaxRate + 1

StddevValues == -1 .. 1

\* The position of pixel p in the row-major order of its array
FlatIndex(p, pixels) == Cardinality({q \in pixels :
                                        q[1] < p[1]
                                        \/ (q[1] = p[1] /\ q[2] < p[2])})

ValueError(rng_made) ==
    [exception |-> "ValueError", rng_made |-> rng_made, drawn |-> 0,
     image |-> << >>]

\* rng.poisson(lam): one sample per element of lam, or ValueError for a
\* rate that is negative or too large.  A rate of 0 gives the sample 0.
RngPoisson(lam, s) ==
    IF \E p \in DOMAIN lam : lam[p] < 0 \/ lam[p] > MaxRate
    THEN ValueError(TRUE)
    ELSE [exception |-> "none", rng_made |-> TRUE,
          drawn |-> Cardinality(DOMAIN lam),
          image |-> [p \in DOMAIN lam |->
                       IF lam[p] = 0 THEN 0
                       ELSE Deviate(StateAfter(s, FlatIndex(p, DOMAIN lam)))]]

\* rng.normal(loc, scale, size): one sample per pixel, or ValueError for a
\* negative scale.  Samples are numerators over Modulus.
RngNormal(loc, scale, shp, s) ==
    IF scale < 0
    THEN ValueError(TRUE)
    ELSE [exception |-> "none", rng_made |-> TRUE,
          drawn |-> Cardinality(Pixels(shp)),
          image |-> [p \in Pixels(shp) |->
                       Modulus * loc
                       + scale * (2 * Deviate(StateAfter(s,
                                       FlatIndex(p, Pixels(shp))))
                                  - (Modulus - 1))]]

\* A check that also refuses a pixel without counts.
AnyNegativeOrZero(data) == \E p \in DOMAIN data : data[p] <= 0

\* line 84: np.any(data < 0)
AnyNegative(data) == \E p \in DOMAIN data : data[p] < 0

\* lines 82-88, the whole call
ApplyPoissonNoise(data, seed, os) ==
    IF AnyNegative(data) THEN ValueError(FALSE)
    ELSE RngPoisson(data, DefaultRng(seed, os))

\* A check that asks for stddev whatever the distribution.
StddevMissingAny(distribution, stddev) == ~stddev.given

\* lines 155-157
StddevMissing(distribution, stddev) ==
    distribution = "gaussian" /\ ~stddev.given

\* lines 151-166, the whole call
MakeNoiseImage(shp, distribution, mean, stddev, seed, os) ==
    IF ~mean.given THEN ValueError(FALSE)
    ELSE IF StddevMissing(distribution, stddev) THEN ValueError(TRUE)
    ELSE IF distribution = "gaussian"
    THEN RngNormal(mean.val, stddev.val, shp, DefaultRng(seed, os))
    ELSE IF distribution = "poisson"
    THEN RngPoisson([p \in Pixels(shp) |-> mean.val], DefaultRng(seed, os))
    ELSE ValueError(TRUE)

\* Creating a generator without a seed draws on the entropy source.
EntropyAfter(os, seed, result) ==
    IF result.rng_made /\ seed = NoSeed THEN NextState(os) ELSE os

NoiseInit ==
    /\ RenderIdle
    /\ CoordsIdle
    /\ TableIdle
    /\ GaussIdle
    /\ WrapIdle
    /\ ErrorIdle
    /\ RoundIdle
    /\ PsfIdle
    /\ noise_entropy \in 0 .. Modulus - 1
    /\ noise_call = NoCall

\* The call of apply_poisson_noise(data, seed); a behaviour is one call of
\* one of the two functions.
PoissonCall ==
    /\ ~noise_call.made
    /\ \E data \in DataArrays, seed \in Seeds :
         LET result == ApplyPoissonNoise(data, seed, noise_entropy)
         IN  /\ noise_call' = [made |-> TRUE, fn |-> "apply_poisson_noise",
                               data |-> data, seed |-> seed,
                               entropy |-> noise_entropy, result |-> result]
             /\ noise_entropy' = EntropyAfter(noise_entropy, seed, result)
    /\ UNCHANGED notNoise

\* The call of make_noise_image(shape, distribution, mean, stddev, seed).
NoiseImageCall ==
    /\ ~noise_call.made
    /\ \E shp \in Shapes, distribution \in Distributions,
          mean \in Optional(MeanValues), stddev \in Optional(StddevValues),
          seed \in Seeds :
         LET result == MakeNoiseImage(shp, distribution, mean, stddev, seed,
                                      noise_entropy)
         IN  /\ noise_call' = [made |-> TRUE, fn |-> "make_noise_image",
                               shape |-> shp, distribution |-> distribution,
                               mean |-> mean, stddev |-> stddev,
                               seed |-> seed, entropy |-> noise_entropy,
                               result |-> result]
             /\ noise_entropy' = EntropyAfter(noise_entropy, seed, result)
    /\ UNCHANGED notNoise

NoiseNext == PoissonCall \/ NoiseImageCall

SpecNoise == NoiseInit /\ [][NoiseNext]_vars

-----------------------------------------------------------------------------
(* Properties of apply_poisson_noise and make_noise_image.                 *)

PoissonCalled == noise_call.made /\ noise_call.fn = "apply_poisson_noise"

NoiseImageCalled == noise_call.made /\ noise_call.fn = "make_noise_image"

Failed(call) == call.result.exception = "ValueError"

\* The call returned one sample per pixel, each drawn for that call.
SampledOver(call, pixels) ==
    /\ call.result.exception = "none"
    /\ DOMAIN call.result.image = pixels
    /\ call.result.drawn = Cardinality(pixels)

\* C14 as stated: apply_poisson_noise fails with ValueError if and only if
\* the array has a negative element, then without drawing a sample; for
\* every array without a negative element it returns one sample per element.
C14_FailsIffNegative ==
    PoissonCalled =>
        LET data == noise_call.data
            negative == \E p \in DOMAIN data : data[p] < 0
        IN  /\ Failed(noise_call) <=> negative
            /\ negative => noise_call.result.drawn = 0
            /\ ~negative => SampledOver(noise_call, DOMAIN data)

\* C14 as amended: it fails with ValueError for an array with a negative
\* element, then without creating a generator or drawing a sample, and for
\* an array that has no negative element but a rate too large for the
\* sampler, then without drawing a sample; for every array of rates the
\* sampler accepts it returns one sample per element.
C14_FailsIffNegativeOrTooLarge ==
    PoissonCalled =>
        LET data == noise_call.data
            negative == \E p \in DOMAIN data : data[p] < 0
            toolarge == \E p \in DOMAIN data : data[p] > MaxRate
        IN  /\ Failed(noise_call) <=> negative \/ toolarge
            /\ negative => /\ noise_call.result.drawn = 0
                           /\ ~noise_call.result.rng_made
                           /\ noise_entropy = noise_call.entropy
            /\ toolarge => noise_call.result.drawn = 0
            /\ ~negative /\ ~toolarge => SampledOver(noise_call, DOMAIN data)

\* An array of four rates, some zero and some positive, has been sampled.
C14_Witness ==
    /\ PoissonCalled
    /\ ~Failed(noise_call)
    /\ Cardinality(DOMAIN noise_call.data) = 4
    /\ \E p \in DOMAIN noise_call.data : noise_call.data[p] = 0
    /\ \E p \in DOMAIN noise_call.data : noise_call.data[p] > 0
    /\ noise_call.result.drawn = 4

\* The three failures make_noise_image raises itself, and the independence
\* of a Poisson result from stddev.
NoiseImageRefusals ==
    LET c == noise_call
    IN  /\ ~c.mean.given => Failed(c)
        /\ c.distribution = "gaussian" /\ ~c.stddev.given => Failed(c)
        /\ c.distribution \notin {"gaussian", "poisson"} => Failed(c)
        /\ c.distribution = "poisson" =>
              c.result = MakeNoiseImage(c.shape, "poisson", c.mean,
                                        [given |-> FALSE, val |-> 0],
                                        c.seed, c.entropy)

-----------------------------------------------------------------------------
(* calc_total_error, errors.py 13-187.                                     *)
(* An input is an array with an optional unit.  A unit is the exponent of  *)
(* each base unit; a scalar is an array of shape () with the one index     *)
(* << >>.  A total error is kept as its square, the fraction num / den     *)
(* with den > 0, so that the square root is exact.                         *)

Dimensionless == [electron |-> 0, photon |-> 0, adu |-> 0, s |-> 0]

Electron == [Dimensionless EXCEPT !.electron = 1]

Photon == [Dimensionless EXCEPT !.photon = 1]

Adu == [Dimensionless EXCEPT !.adu = 1]

Second == [Dimensionless EXCEPT !.s = 1]

\* unit * unit and unit ** k
UnitTimes(u1, u2) == [b \in DOMAIN u1 |-> u1[b] + u2[b]]

UnitPower(u1, k) == [b \in DOMAIN u1 |-> k * u1[b]]

\* the unit of np.sqrt(quantity)
UnitSqrt(u1) == [b \in DOMAIN u1 |-> u1[b] \div 2]

ElectronPerSecond == UnitTimes(Electron, UnitPower(Second, -1))

PhotonPerSecond == UnitTimes(Photon, UnitPower(Second, -1))

ElectronPerAdu == UnitTimes(Electron, UnitPower(Adu, -1))

\* An array without a unit, and a Quantity
NoUnit == [has_unit |-> FALSE, unit |-> Dimensionless]

WithUnit(u1) == [has_unit |-> TRUE, unit |-> u1]

DataUnits ==
    {NoUnit, WithUnit(Adu), WithUnit(ElectronPerSecond),
     WithUnit(PhotonPerSecond)}

GainUnits == {NoUnit, WithUnit(ElectronPerAdu), WithUnit(Second)}

ErrorShapes == {<<1, 1>>, <<1, 2>>}

\* The indices of an array of the given shape; () has the one index << >>
Indices(shp) == IF shp = << >> THEN {<< >>} ELSE Pixels(shp)

DataValues == -1 .. 1

BkgErrorValues == -1 .. 1

GainValues == {-1, 0, 2}

\* data: an array of floats or of integers; a Quantity holds floats
DataInputs ==
    UNION {
        {[has_unit |-> q.has_unit, unit |-> q.unit, dtype |-> dt,
          shape |-> shp, values |-> v] :
            q \in DataUnits, dt \in {"float"}, v \in [Pixels(shp) -> DataValues]}
        \cup
        {[has_unit |-> FALSE, unit |-> Dimensionless, dtype |-> "int",
          shape |-> shp, values |-> v] : v \in [Pixels(shp) -> DataValues]} :
        shp \in ErrorShapes}

\* bkg_error: an array of floats of the shape of data
BkgErrorInputs(shp) ==
    {[has_unit |-> q.has_unit, unit |-> q.unit, shape |-> shp,
      values |-> v] :
        q \in DataUnits, v \in [Pixels(shp) -> BkgErrorValues]}

\* effective_gain: a scalar or an array of floats
GainInputs ==
    UNION {
        {[has_unit |-> q.has_unit, unit |-> q.unit, shape |-> shp,
          values |-> v] :
            q \in GainUnits, v \in [Indices(shp) -> GainValues]} :
        shp \in ErrorShapes \cup {<< >>}}

\* any(has_unit) that looks at data alone.
AnyOfFirst(has_unit) == has_unit[1]

\* any(has_unit) and all(has_unit)
AnyOf(has_unit) == \E i \in DOMAIN has_unit : has_unit[i]

AllOf(has_unit) == \A i \in DOMAIN has_unit : has_unit[i]

\* Count units without the photon.
count_units_electron == {Electron}

\* line 149
count_units == {Electron, Photon}

\* isiterable(effective_gain): a scalar is not
IsIterable(x) == x.shape # << >>

\* A broadcast that fills the first pixel only.
BroadcastFirst(shp, x) ==
    [p \in Pixels(shp) |-> IF p = <<0, 0>> THEN x.values[<< >>] ELSE 0]

\* line 157: np.zeros(data.shape) + effective_gain
Broadcast(shp, x) == [p \in Pixels(shp) |-> 0 + x.values[<< >>]]

\* A maximum that lets everything through.
MaximumNone(x, floor) == x

\* line 179: np.maximum(source_variance, 0), for one pixel
Maximum(x, floor) == IF x.num < floor * x.den THEN [num |-> floor, den |-> 1]
                     ELSE x

\* lines 171-179 for one pixel: data / effective_gain where the gain is not
\* zero, 0.0 where it is, and not below 0
SourceVariance(d, g) ==
    Maximum(IF g # 0 THEN [num |-> d, den |-> g] ELSE [num |-> 0, den |-> 1],
            0)

\* line 187 for one pixel: bkg_error**2 + source_variance, the square of
\* the value returned
TotalErrorSquared(b, sv) == [num |-> b * b * sv.den + sv.num, den |-> sv.den]

\* A test that refuses a gain of zero as well.
AnyNotPositive(gain) == \E p \in DOMAIN gain : gain[p] <= 0

\* line 163: np.any(effective_gain < 0), of the gain as broadcast
AnyNegativeGain(gain) == \E p \in DOMAIN gain : gain[p] < 0

Raise(exception, check, gain) ==
    [exception |-> exception, check |-> check, unit |-> NoUnit,
     gain |-> gain, total |-> << >>]

\* A call that tests the gain, its shape then its sign, before the units.
CalcTotalErrorGainFirst(data, bkg_error, effective_gain) ==
    LET has_unit == <<data.has_unit, bkg_error.has_unit,
                      effective_gain.has_unit>>
        use_units == AllOf(has_unit)
        datagain_unit == UnitTimes(data.unit, effective_gain.unit)
        gain == IF ~IsIterable(effective_gain)
                THEN Broadcast(data.shape, effective_gain)
                ELSE effective_gain.values
    IN  IF IsIterable(effective_gain)
           /\ effective_gain.shape # data.shape
        THEN Raise("ValueError", "shape", << >>)
        ELSE IF AnyNegativeGain(gain)
        THEN Raise("ValueError", "negative", gain)
        ELSE IF AnyOf(has_unit) /\ ~use_units
        THEN Raise("ValueError", "mixed", << >>)
        ELSE IF use_units /\ data.unit # bkg_error.unit
        THEN Raise("ValueError", "differ", << >>)
        ELSE IF use_units /\ datagain_unit \notin count_units
        THEN Raise("UnitsError", "count", << >>)
        ELSE IF data.dtype = "int"
        THEN Raise("TypeError", "cast", gain)
        ELSE [exception |-> "none", check |-> "none",
              unit |-> IF use_units
                       THEN WithUnit(UnitSqrt(UnitPower(bkg_error.unit, 2)))
                       ELSE NoUnit,
              gain |-> gain,
              total |-> [p \in Pixels(data.shape) |->
                           TotalErrorSquared(
                               bkg_error.values[p],
                               SourceVariance(data.values[p], gain[p]))]]

\* lines 135-187, the whole call
CalcTotalError(data, bkg_error, effective_gain) ==
    LET has_unit == <<data.has_unit, bkg_error.has_unit,
                      effective_gain.has_unit>>
        use_units == AllOf(has_unit)
        datagain_unit == UnitTimes(data.unit, effective_gain.unit)
        gain == IF ~IsIterable(effective_gain)
                THEN Broadcast(data.shape, effective_gain)
                ELSE effective_gain.values
    IN  IF AnyOf(has_unit) /\ ~use_units
        THEN Raise("ValueError", "mixed", << >>)
        ELSE IF use_units /\ data.unit # bkg_error.unit
        THEN Raise("ValueError", "differ", << >>)
        ELSE IF use_units /\ datagain_unit \notin count_units
        THEN Raise("UnitsError", "count", << >>)
        ELSE IF IsIterable(effective_gain)
                /\ effective_gain.shape # data.shape
        THEN Raise("ValueError", "shape", << >>)
        ELSE IF AnyNegativeGain(gain)
        THEN Raise("ValueError", "negative", gain)
        \* lines 172-174: source_variance is a copy of data, and dividing
        \* an array of integers in place raises numpy's casting error
        ELSE IF data.dtype = "int"
        THEN Raise("TypeError", "cast", gain)
        ELSE [exception |-> "none", check |-> "none",
              unit |-> IF use_units
                       THEN WithUnit(UnitSqrt(UnitPower(bkg_error.unit, 2)))
                       ELSE NoUnit,
              gain |-> gain,
              total |-> [p \in Pixels(data.shape) |->
                           TotalErrorSquared(
                               bkg_error.values[p],
                               SourceVariance(data.values[p], gain[p]))]]

ErrorInit ==
    /\ RenderIdle
    /\ CoordsIdle
    /\ TableIdle
    /\ GaussIdle
    /\ WrapIdle
    /\ NoiseIdle
    /\ RoundIdle
    /\ PsfIdle
    /\ error_call = NoCall

\* The call of calc_total_error(data, bkg_error, effective_gain); a
\* behaviour is one call.
ErrorCall ==
    /\ ~error_call.made
    /\ \E data \in DataInputs, effective_gain \in GainInputs :
         \E bkg_error \in BkgErrorInputs(data.shape) :
            error_call' =
                [made |-> TRUE, data |-> data, bkg_error |-> bkg_error,
                 effective_gain |-> effective_gain,
                 result |-> CalcTotalError(data, bkg_error, effective_gain)]
    /\ UNCHANGED notError

ErrorNext == ErrorCall

SpecError == ErrorInit /\ [][ErrorNext]_vars

-----------------------------------------------------------------------------
(* Properties of calc_total_error.                                         *)

ErrorReturned == error_call.made /\ error_call.result.exception = "none"

\* The inputs passed the five checks of lines 138-164.
PassedValidation ==
    /\ error_call.made
    /\ error_call.result.check
          \notin {"mixed", "differ", "count", "shape", "negative"}

\* The gain of pixel p as passed: the array's element, or the scalar
GainAt(p) ==
    IF error_call.effective_gain.shape = << >>
    THEN error_call.effective_gain.values[<< >>]
    ELSE error_call.effective_gain.values[p]

\* sqrt(r) compared with the number b, for a fraction r >= 0
SqrtEquals(r, b) == b >= 0 /\ r.num = b * b * r.den

SqrtAtLeast(r, b) == b <= 0 \/ r.num >= b * b * r.den

SqrtAbove(r, b) == b < 0 \/ r.num > b * b * r.den

\* C16: for inputs that pass validation the call returns, at every pixel,
\* sqrt(bkg_error^2 + s) with s = data / gain where gain # 0 and
\* data / gain >= 0, and s = 0 elsewhere; a scalar gain is the gain of
\* every pixel.
C16_TotalErrorFormula ==
    PassedValidation =>
        /\ error_call.result.exception = "none"
        /\ DOMAIN error_call.result.total = Pixels(error_call.data.shape)
        /\ \A p \in Pixels(error_call.data.shape) :
             LET r == error_call.result.total[p]
                 b == error_call.bkg_error.values[p]
                 d == error_call.data.values[p]
                 g == GainAt(p)
             IN  /\ r.den > 0
                 /\ IF g # 0 /\ d * g >= 0
                    THEN r.num * g = r.den * (b * b * g + d)
                    ELSE r.num = r.den * b * b

NumberWithUnit ==
    Cardinality({x \in {"data", "bkg_error", "effective_gain"} :
                    error_call[x].has_unit})

\* C18: when one or two of the three inputs carry a unit, and when all
\* three do but the units of data and bkg_error differ, the call raises
\* ValueError and returns nothing.
C18_MixedOrDifferingUnitsRejected ==
    error_call.made =>
        /\ NumberWithUnit \in {1, 2} =>
              /\ error_call.result.exception = "ValueError"
              /\ error_call.result.total = << >>
        /\ NumberWithUnit = 3
             /\ error_call.data.unit # error_call.bkg_error.unit =>
              /\ error_call.result.exception = "ValueError"
              /\ error_call.result.total = << >>

\* A call with a unit on effective_gain alone, and valid numbers, has been
\* refused.
C18_Witness ==
    /\ error_call.made
    /\ ~error_call.data.has_unit /\ ~error_call.bkg_error.has_unit
    /\ error_call.effective_gain.has_unit
    /\ error_call.data.dtype = "float"
    /\ error_call.effective_gain.shape = << >>
    /\ error_call.effective_gain.values[<< >>] > 0
    /\ error_call.result.exception = "ValueError"

\* data.unit * effective_gain.unit is the electron or the photon
IsCount ==
    LET product == [b \in DOMAIN error_call.data.unit |->
                      error_call.data.unit[b]
                      + error_call.effective_gain.unit[b]]
    IN  \/ product = [electron |-> 1, photon |-> 0, adu |-> 0, s |-> 0]
        \/ product = [electron |-> 0, photon |-> 1, adu |-> 0, s |-> 0]

\* C19: with a unit on all three inputs, a product of data's and the
\* gain's unit that is no count unit makes the call fail on its units,
\* with UnitsError exactly when data and bkg_error have the same unit and
\* the product is no count unit; a returned total error has the unit of
\* data, and none when no input has a unit.
C19_CountUnitRequired ==
    error_call.made =>
        /\ NumberWithUnit = 3 /\ ~IsCount =>
              /\ error_call.result.check \in {"differ", "count"}
              /\ error_call.result.total = << >>
        /\ error_call.result.exception = "UnitsError" <=>
              /\ NumberWithUnit = 3
              /\ error_call.data.unit = error_call.bkg_error.unit
              /\ ~IsCount
        /\ ErrorReturned /\ NumberWithUnit = 3 =>
              /\ error_call.result.unit.has_unit
              /\ error_call.result.unit.unit = error_call.data.unit
        /\ ErrorReturned /\ NumberWithUnit = 0 =>
              ~error_call.result.unit.has_unit

\* A call with data in photon / s and a gain in s has returned a total
\* error in photon / s.
C19_Witness ==
    /\ ErrorReturned
    /\ error_call.data.unit.photon = 1
    /\ error_call.effective_gain.unit.s = 1
    /\ error_call.effective_gain.has_unit
    /\ error_call.result.unit.unit.photon = 1

UnitsAccepted ==
    error_call.result.check \notin {"mixed", "differ", "count"}

\* C20: an array gain whose shape is not data's makes the call fail, with
\* the ValueError of the shape check once the units are accepted; a scalar
\* gain never fails the shape check, whatever data's shape, and is then the
\* gain of every pixel.
C20_GainShape ==
    error_call.made =>
        LET gain == error_call.effective_gain
        IN  /\ gain.shape # << >> /\ gain.shape # error_call.data.shape =>
                 /\ error_call.result.exception \in {"ValueError", "UnitsError"}
                 /\ error_call.result.total = << >>
                 /\ UnitsAccepted =>
                       /\ error_call.result.exception = "ValueError"
                       /\ error_call.result.check = "shape"
            /\ gain.shape = << >> =>
                 /\ error_call.result.check # "shape"
                 /\ UnitsAccepted =>
                       error_call.result.gain =
                           [p \in Pixels(error_call.data.shape) |->
                               gain.values[<< >>]]

\* A scalar gain other than 0 has been used for both pixels of a returned
\* total error.
C20_Witness ==
    /\ ErrorReturned
    /\ error_call.effective_gain.shape = << >>
    /\ error_call.effective_gain.values[<< >>] > 0
    /\ error_call.data.shape = <<1, 2>>
    /\ \A p \in Pixels(<<1, 2>>) : error_call.data.values[p] > 0

\* The gain values as passed: the elements of the array, or the scalar
GainPassed ==
    {error_call.effective_gain.values[i] :
        i \in Indices(error_call.effective_gain.shape)}

\* C21: a call whose effective_gain, scalar or array, holds a negative
\* value fails with a ValueError (UnitsError is one) and computes nothing;
\* it is the error of the gain check once units and shape are accepted.  A
\* gain without a negative value never fails the gain check, zeros
\* included, so that a call of floating-point data whose units and shapes
\* are accepted returns; every gain value of a returned result is >= 0.
C21_NegativeGainRejectedZeroAccepted ==
    error_call.made =>
        /\ (\E g \in GainPassed : g < 0) =>
              /\ error_call.result.exception \in {"ValueError", "UnitsError"}
              /\ error_call.result.total = << >>
              /\ error_call.result.check
                    \in {"mixed", "differ", "count", "shape", "negative"}
              /\ error_call.result.check \notin {"mixed", "differ", "count",
                                                 "shape"} =>
                    /\ error_call.result.exception = "ValueError"
                    /\ error_call.result.check = "negative"
        /\ (\A g \in GainPassed : g >= 0) =>
              /\ error_call.result.check # "negative"
              /\ error_call.result.check \notin {"mixed", "differ", "count",
                                                 "shape"}
                   /\ error_call.data.dtype = "float" => ErrorReturned
        /\ ErrorReturned =>
              \A p \in Pixels(error_call.data.shape) :
                  /\ error_call.result.gain[p] >= 0
                  /\ error_call.result.gain[p] = GainAt(p)

\* A call with an array gain of a zero and a positive value has returned,
\* and the pixel of the zero gain has positive data.
C21_Witness ==
    /\ ErrorReturned
    /\ error_call.effective_gain.shape = <<1, 2>>
    /\ error_call.effective_gain.values[<<0, 0>>] = 0
    /\ error_call.effective_gain.values[<<0, 1>>] > 0
    /\ error_call.data.values[<<0, 0>>] > 0

\* The five violations of an input, each told from the input alone, in the
\* order of the checks of lines 138-164.
Violations ==
    LET data == error_call.data
        bkg_error == error_call.bkg_error
        effective_gain == error_call.effective_gain
    IN  <<[check |-> "mixed", exception |-> "ValueError",
           violated |-> NumberWithUnit \in {1, 2}],
          [check |-> "differ", exception |-> "ValueError",
           violated |-> /\ data.has_unit /\ bkg_error.has_unit
                        /\ data.unit # bkg_error.unit],
          [check |-> "count", exception |-> "UnitsError",
           violated |-> /\ data.has_unit /\ effective_gain.has_unit
                        /\ ~IsCount],
          [check |-> "shape", exception |-> "ValueError",
           violated |-> /\ effective_gain.shape # << >>
                        /\ effective_gain.shape # data.shape],
          [check |-> "negative", exception |-> "ValueError",
           violated |-> \E g \in GainPassed : g < 0]>>

Violated == {i \in DOMAIN Violations : Violations[i].violated}

\* C23: a call whose input violates one or more of the five checks fails
\* with the error of the earliest violated check in the order mixed units,
\* differing units of data and bkg_error, no count unit, gain shape,
\* negative gain, and computes no total error; an input that violates none
\* fails none of the five.
C23_FirstViolationReported ==
    error_call.made =>
        IF Violated = {}
        THEN PassedValidation
        ELSE LET first == CHOOSE i \in Violated : \A j \in Violated : i <= j
             IN  /\ error_call.result.check = Violations[first].check
                 /\ error_call.result.exception = Violations[first].exception
                 /\ error_call.result.total = << >>

\* A call whose input has no count unit, a gain of another shape than data
\* and a negative gain value has failed.
C23_Witness ==
    /\ error_call.made
    /\ Violated = {3, 4, 5}
    /\ error_call.result.exception = "UnitsError"

-----------------------------------------------------------------------------
(* One round of the while loop of _make_nonoverlap_coords, make.py         *)
(* 962-977, with its locals kept: the pool the round starts from, the      *)
(* candidates it draws, the pool it filters and the pool it leaves.  The   *)
(* round is the niter-th of a call; it starts from a pool that niter - 1   *)
(* rounds of that call can leave.                                          *)

\* The rounds looked at: the first MaxRound of a call
MaxRound == 2

\* The pools that it - 1 rounds of a call can leave with the loop still
\* running (lines 962-964): none but the empty pool of line 959 for it = 1
RECURSIVE PoolsBefore(_, _, _, _)
PoolsBefore(region, n, d, it) ==
    IF it = 1 THEN {<< >>}
    ELSE {Filter(Stack(it - 1, before, Transpose(x_new, y_new)), d,
                 Len(Stack(it - 1, before, Transpose(x_new, y_new)))) :
             before \in {b \in PoolsBefore(region, n, d, it - 1) : Len(b) < n},
             x_new \in Uniform(region.xrange, n),
             y_new \in Uniform(region.yrange, n)}

RoundInit ==
    /\ RenderIdle
    /\ CoordsIdle
    /\ TableIdle
    /\ GaussIdle
    /\ WrapIdle
    /\ NoiseIdle
    /\ ErrorIdle
    /\ PsfIdle
    /\ round_call = NoCall

\* lines 962-977: the niter-th round of a call; a behaviour is one round
RoundCall ==
    /\ ~round_call.made
    /\ \E region \in Regions, n \in 1 .. MaxCoords, d \in 0 .. MaxSep,
          it \in 1 .. MaxRound :
         \E before \in PoolsBefore(region, n, d, it) :
            /\ Len(before) < n
            /\ ~CapReached(it)
            /\ \E x_new \in Uniform(region.xrange, n),
                  y_new \in Uniform(region.yrange, n) :
                 LET new_xycoords == Transpose(x_new, y_new)
                     pool == Stack(it, before, new_xycoords)
                 IN  round_call' =
                         [made |-> TRUE, ncoords |-> n, min_separation |-> d,
                          niter |-> it, before |-> before,
                          new_xycoords |-> new_xycoords, pool |-> pool,
                          xycoords |-> Filter(pool, d, Len(pool))]
    /\ UNCHANGED notRound

RoundNext == RoundCall

SpecRound == RoundInit /\ [][RoundNext]_vars

-----------------------------------------------------------------------------
(* Properties of one round.                                                *)

\* Point i of the pool has another point of the pool at distance < d.
TooClose(pool, d, i) ==
    \E j \in DOMAIN pool : j # i /\ Dist2(pool[i], pool[j]) < d * d

\* The points of the pool that are not too close to another, in order
Survivors(pool, d) ==
    LET kept == {i \in DOMAIN pool : ~TooClose(pool, d, i)}
    IN  [k \in 1 .. Cardinality(kept) |->
            pool[CHOOSE i \in kept : Cardinality({j \in kept : j <= i}) = k]]

\* C22: a round draws exactly ncoords candidates; the pool it filters is
\* these candidates in round 1 and the pool left by the earlier rounds
\* followed by these candidates in a later round; the round leaves exactly
\* the points of that pool that have no other pool point at distance
\* < min_separation, so that neither member of a too-close pair is left,
\* were it left by an earlier round or not, and the points left are
\* pairwise >= min_separation apart.
C22_RoundFiltersWholePool ==
    round_call.made =>
        LET d == round_call.min_separation
            pool == IF round_call.niter = 1 THEN round_call.new_xycoords
                    ELSE round_call.before \o round_call.new_xycoords
        IN  /\ Len(round_call.new_xycoords) = round_call.ncoords
            /\ round_call.niter = 1 => round_call.before = << >>
            /\ round_call.pool = pool
            /\ round_call.xycoords = Survivors(pool, d)
            /\ \A i, j \in DOMAIN pool :
                  i # j /\ Dist2(pool[i], pool[j]) < d * d =>
                      /\ pool[i] \notin Range(round_call.xycoords)
                      /\ pool[j] \notin Range(round_call.xycoords)
            /\ PairwiseApart(round_call.xycoords, d)

\* A second round has removed the point that the first round left, together
\* with a candidate, not at the same place, that is too close to it.
C22_Witness ==
    /\ round_call.made
    /\ round_call.niter = 2
    /\ Len(round_call.before) = 1
    /\ round_call.before[1] \notin Range(round_call.xycoords)
    /\ \E i \in DOMAIN round_call.new_xycoords :
          /\ round_call.new_xycoords[i] # round_call.before[1]
          /\ Dist2(round_call.new_xycoords[i], round_call.before[1])
                < round_call.min_separation * round_call.min_separation
          /\ round_call.new_xycoords[i] \notin Range(round_call.xycoords)

-----------------------------------------------------------------------------
(* make_test_psf_data, make.py 987-1076, called without a progress bar.    *)
(* The call runs _make_nonoverlap_coords (its rounds are the steps         *)
(* CoordsRound and CoordsReturn), then builds the table and the image.     *)
(* The PSF model is the caller's: the stand-in puts the whole flux in the  *)
(* pixel of (x_0, y_0).  A table is its columns, in order.                 *)

\* shape and psf_shape, as <<ny, nx>>: the two drawing regions of Regions
PsfShapes ==
    {[shape |-> <<1, 3>>, psf_shape |-> <<1, 1>>],
     [shape |-> <<2, 4>>, psf_shape |-> <<1, 3>>]}

FluxRanges == {<<1, 3>>}

\* psf_model(xx, yy) for the parameters m
PsfEvaluate(m, xx, yy) ==
    IF xx = m["x_0"] /\ yy = m["y_0"] THEN m["flux"] ELSE 0

\* line 1038: (np.array(psf_shape) - 1) // 2
Hshape(psf_shape) == <<(psf_shape[1] - 1) \div 2, (psf_shape[2] - 1) \div 2>>

\* line 1068: overlap_slices(shape, psf_shape, (ycen, xcen), mode='trim'),
\* the pixels of the large array: along an axis the slice starts at
\* ceil(position - size / 2), is size long, and is cut at the array's edges
OverlapSlices(shp, psf_shape, ycen, xcen) ==
    LET ymin == (2 * ycen - psf_shape[1] + 1) \div 2
        xmin == (2 * xcen - psf_shape[2] + 1) \div 2
    IN  {q \in Pixels(shp) : /\ q[1] >= ymin /\ q[1] < ymin + psf_shape[1]
                             /\ q[2] >= xmin /\ q[2] < xmin + psf_shape[2]}

\* A slice that cuts nothing.
SliceNothing(values, n) == values

\* line 1050: flux[:len(x)]
Slice(values, n) == SubSeq(values, 1, IF Len(values) < n THEN Len(values) ELSE n)

\* lines 1052-1054: sources[name] = values; a table refuses a column whose
\* length is not that of its columns
SetItem(table, name, values) ==
    IF table # << >> /\ Len(values) # Len(table[1].values) THEN "ValueError"
    ELSE Append(table, [name |-> name, values |-> values])

\* lines 1052-1054, the three columns; "ValueError" once one is refused
RECURSIVE SetItems(_, _)
SetItems(table, columns) ==
    IF columns = << >> THEN table
    ELSE LET next == SetItem(table, columns[1].name, columns[1].values)
         IN  IF next = "ValueError" THEN "ValueError"
             ELSE SetItems(next, Tail(columns))

\* source[param] of row i
Cell(table, name, i) ==
    LET k == CHOOSE c \in DOMAIN table : table[c].name = name
    IN  table[k].values[i]

\* lines 1073-1075: sources.rename_column(name, new_name)
RenameColumn(table, name, new_name) ==
    [c \in DOMAIN table |->
        IF table[c].name = name THEN [table[c] EXCEPT !.name = new_name]
        ELSE table[c]]

\* lines 1063-1071 for the rows i .. Len: the model's parameters are set
\* to the row's and the model is added over the row's slice
RECURSIVE AddSources(_, _, _, _, _)
AddSources(data, psf_model, table, i, args) ==
    IF table = << >> \/ i > Len(table[1].values)
    THEN [data |-> data, psf_model |-> psf_model]
    ELSE LET m == [name \in {"x_0", "y_0", "flux"} |-> Cell(table, name, i)]
             slc_lg == OverlapSlices(args.shape, args.psf_shape,
                                     Cell(table, "y_0", i), Cell(table, "x_0", i))
         IN  AddSources([q \in DOMAIN data |->
                            IF q \in slc_lg
                            THEN data[q] + PsfEvaluate(m, q[2], q[1])
                            ELSE data[q]],
                        m, table, i + 1, args)

\* lines 1045-1076, after the coordinates have come back
MakeTestPsfData(args, coords, flux_drawn) ==
    LET x == [i \in DOMAIN coords |-> coords[i][1]]
        y == [i \in DOMAIN coords |-> coords[i][2]]
        flux == Slice(flux_drawn, Len(x))
        sources == SetItems(<< >>, <<[name |-> "x_0", values |-> x],
                                     [name |-> "y_0", values |-> y],
                                     [name |-> "flux", values |-> flux]>>)
    IN  IF sources = "ValueError"
        THEN [exception |-> "ValueError", data |-> << >>, sources |-> << >>,
              psf_model |-> args.psf_model]
        ELSE LET added == AddSources([q \in Pixels(args.shape) |-> 0],
                                     args.psf_model, sources, 1, args)
             IN  [exception |-> "none",
                  data |-> added.data,
                  sources |-> RenameColumn(
                                  RenameColumn(
                                      RenameColumn(sources, "x_0", "x"),
                                      "y_0", "y"),
                                  "flux", "flux"),
                  psf_model |-> added.psf_model]

PsfInit ==
    /\ RenderIdle
    /\ CoordsIdle
    /\ TableIdle
    /\ GaussIdle
    /\ WrapIdle
    /\ NoiseIdle
    /\ ErrorIdle
    /\ RoundIdle
    /\ \E shapes \in PsfShapes, n \in 0 .. MaxCoords, d \in 0 .. MaxSep,
          flux_range \in FluxRanges :
         psf_args = [shape |-> shapes.shape, psf_shape |-> shapes.psf_shape,
                     psf_model |-> [name \in {"x_0", "y_0", "flux"} |->
                                       IF name = "flux" THEN 1 ELSE 0],
                     nsources |-> n, flux_range |-> flux_range,
                     min_separation |-> d]
    /\ psf_pc = "call"
    /\ psf_ret = << >>

\* lines 1038-1044: the call of _make_nonoverlap_coords
PsfCall ==
    /\ psf_pc = "call"
    /\ LET hshape == Hshape(psf_args.psf_shape)
       IN  /\ xrange' = <<hshape[2], psf_args.shape[2] - hshape[2]>>
           /\ yrange' = <<hshape[1], psf_args.shape[1] - hshape[1]>>
    /\ ncoords' = psf_args.nsources
    /\ min_separation' = psf_args.min_separation
    /\ xycoords' = << >>
    /\ niter' = 1
    /\ nrounds' = 0
    /\ warnings' = << >>
    /\ pc_coords' = "loop"
    /\ ret_coords' = << >>
    /\ psf_pc' = "coords"
    /\ UNCHANGED <<psf_args, psf_ret>>
    /\ UNCHANGED notPsf

\* lines 1045-1076, once _make_nonoverlap_coords has returned; the
\* generator of line 1048 draws nsources fluxes
PsfReturn ==
    /\ psf_pc = "coords"
    /\ pc_coords = "done"
    /\ \E flux_drawn \in Uniform(psf_args.flux_range, psf_args.nsources) :
         psf_ret' = MakeTestPsfData(psf_args, ret_coords, flux_drawn)
    /\ psf_pc' = "returned"
    /\ UNCHANGED psf_args
    /\ UNCHANGED coordsVars
    /\ UNCHANGED notPsf

PsfNext == PsfCall \/ CoordsRound \/ CoordsReturn \/ PsfReturn

SpecPsf == PsfInit /\ [][PsfNext]_vars

-----------------------------------------------------------------------------
(* Properties of make_test_psf_data.                                       *)

\* The sum of the fluxes of the rows i .. Len of the returned table that
\* lie at pixel q
RECURSIVE FluxAt(_, _)
FluxAt(q, i) ==
    IF i > Len(ret_coords) THEN 0
    ELSE (IF Cell(psf_ret.sources, "y", i) = q[1]
             /\ Cell(psf_ret.sources, "x", i) = q[2]
          THEN Cell(psf_ret.sources, "flux", i)
          ELSE 0) + FluxAt(q, i + 1)

\* C24: the call returns a table of the columns x, y and flux with one row
\* for each coordinate that _make_nonoverlap_coords returned, at most
\* nsources rows, also when the coordinates are fewer than nsources; row i
\* holds the i-th coordinate and a flux of the flux range, and the image
\* holds at each pixel the model contributions of the rows, and nothing
\* else.
C24_RowsAreReturnedCoords ==
    psf_pc = "returned" =>
        /\ psf_ret.exception = "none"
        /\ [c \in DOMAIN psf_ret.sources |-> psf_ret.sources[c].name]
              = <<"x", "y", "flux">>
        /\ \A c \in DOMAIN psf_ret.sources :
              Len(psf_ret.sources[c].values) = Len(ret_coords)
        /\ Len(ret_coords) <= psf_args.nsources
        /\ \A i \in DOMAIN ret_coords :
              /\ Cell(psf_ret.sources, "x", i) = ret_coords[i][1]
              /\ Cell(psf_ret.sources, "y", i) = ret_coords[i][2]
              /\ Cell(psf_ret.sources, "flux", i) >= psf_args.flux_range[1]
              /\ Cell(psf_ret.sources, "flux", i) < psf_args.flux_range[2]
        /\ \A q \in Pixels(psf_args.shape) : psf_ret.data[q] = FluxAt(q, 1)

\* A call for three sources has returned a table of two rows, with the
\* warning of the sampler, and an image that is not empty.
C24_Witness ==
    /\ psf_pc = "returned"
    /\ psf_args.nsources = 3
    /\ Len(ret_coords) = 2
    /\ warnings # << >>
    /\ Len(psf_ret.sources[3].values) = 2
    /\ \E q \in Pixels(psf_args.shape) : psf_ret.data[q] > 0

=============================================================================
